---- MODULE Spec2Model ----
(***************************************************************************)
(* Model of the headlines ingestion run (runParsers in main.go, the fetch  *)
(* loop of ParseRSSFeed, collectUnpublished) as a state machine.           *)
(*                                                                         *)
(* One run launches one task per configured feed.  A task fetches its feed *)
(* (at most maxRetries request attempts), parses the body into posts,      *)
(* asks the published store about every post and writes its result slot.   *)
(* After the barrier the main routine aggregates the slots in feed order,  *)
(* sends the aggregated list and records it in the published store.        *)
(* Runs do not overlap; the store and the notifier's deliveries persist    *)
(* from one run to the next.                                               *)
(*                                                                         *)
(* A second specification, ParserSpec, follows one ParseRSSFeed call from  *)
(* the decoded body to its return value, item by item, for the Slashdot,   *)
(* Atom and RSS variants, and one externalFromContent call.  LiveSpec is   *)
(* one run under the fairness of the Go scheduler.                         *)
(***************************************************************************)
EXTENDS Integers, Sequences, FiniteSets, TLC

\* ---------------------------------------------------------------- bounds
NumFeeds == 2      \* len(feeds.Feeds)
NumGUIDs == 2      \* distinct article identities the feeds can return
MaxItems == 2      \* items in one feed body
MaxRuns  == 2      \* consecutive runs of runParsers

\* ------------------------------------------------------ program constants
\* A fetch loop that allows one request too many.
maxRetries_one_more == 3 + 1
maxRetries == 3        \* ParseRSSFeed: request attempts per feed
maxSendRetries == 2    \* runParsers: send attempts per run

FeedIdx  == 1..NumFeeds
GUIDs    == 1..NumGUIDs
\* An item of a feed body: 0 is an item the parser drops (empty title or
\* link), g > 0 an item the parser turns into a post with GUID g.
Items    == 0..NumGUIDs
Bodies   == UNION {[1..n -> Items] : n \in 0..MaxItems}
\* Statuses a server answers with: 200, another 2xx, a server error.
Statuses == {200, 204, 500}
Targets  == {"email", "telegram"}

VARIABLES
    envTarget,     \* os.Getenv("TARGET")
    published,     \* the published store: GUIDs recorded by BatchMarkPublished
    run,           \* number of the current run
    cancelled,     \* ctx.Done() of the current run
    pc,            \* position of runParsers' main routine
    idx,           \* next feed the launch loop starts
    wg,            \* sync.WaitGroup counter
    tpc,           \* position of each feed task
    attempts,      \* requests issued by each task's fetch loop
    status,        \* HTTP status of the response a task got (0: none)
    posts,         \* articles ParseRSSFeed returned to each task
    toPublish,     \* collectUnpublished's accumulator of each task
    lookups,       \* log of each task's IsArticlePublished calls
    results,       \* the result slots
    finishOrder,   \* feed indices in the order their tasks finished
    allToPublish,  \* the aggregated list
    seen,          \* the cross-feed set of aggregated GUIDs
    attempt,       \* send attempt counter
    sendLog,       \* outcomes of this run's send calls
    markCalls,     \* BatchMarkPublished calls of this run
    sent,          \* GUIDs of the list the last send call was given
    marked,        \* GUIDs of the list BatchMarkPublished was given
    ret,           \* return value of runParsers ("running" until it returns)
    pubAtStart,    \* the published store when the run started
    delivered,     \* GUIDs some send call delivered, in this or an earlier run
    ppc,           \* position of one ParseRSSFeed call past the body read
    feedCfg,       \* feeds.FeedConfig of that call (Header)
    xmlBody,       \* the response body of that call
    itemIdx,       \* next item of the parser's range loop
    parsed,        \* the posts slice of that call
    origin,        \* for each entry of parsed, the index of its item
    parseRet,      \* what the call returned
    escaped,       \* argument of one externalFromContent call
    extLink        \* what that call returned

vars == <<envTarget, published, run, cancelled, pc, idx, wg, tpc, attempts,
          status, posts, toPublish, lookups, results, finishOrder,
          allToPublish, seen, attempt, sendLog, markCalls, sent, marked,
          ret, pubAtStart, delivered, ppc, feedCfg, xmlBody, itemIdx, parsed,
          origin, parseRet, escaped, extLink>>

taskVars == <<tpc, attempts, status, posts, toPublish, lookups, results,
              finishOrder, wg>>
mainVars == <<pc, idx, allToPublish, seen, attempt, sendLog, markCalls, sent,
              marked, ret>>
storeVars == <<published, delivered, pubAtStart>>
parserVars == <<ppc, feedCfg, xmlBody, itemIdx, parsed, origin, parseRet,
                escaped, extLink>>

\* -------------------------------------------------------------- helpers
emptyResult == [Articles |-> <<>>, Err |-> "nil"]

FeedHeader(i) == "feed" \o ToString(i)

\* typesPkg.MainStruct built by ParseRSSFeed for the k-th post of feed i;
\* src records where the article comes from (feed index, parse position).
MainStruct(i, k, g) ==
    [GUID |-> g, Title |-> "t", Header |-> FeedHeader(i), Link |-> "l",
     src |-> <<i, k>>]

RECURSIVE ParseItems(_, _, _, _)
\* The item loop of ParseRSSFeed: unqualified items are skipped, the others
\* appended in document order.
ParseItems(i, body, n, acc) ==
    IF n > Len(body) THEN acc
    ELSE IF body[n] = 0 THEN ParseItems(i, body, n + 1, acc)
    ELSE ParseItems(i, body, n + 1,
                    Append(acc, MainStruct(i, Len(acc) + 1, body[n])))

GuidsOf(arts) == {arts[k].GUID : k \in 1..Len(arts)}
GuidSeq(arts) == [k \in 1..Len(arts) |-> arts[k].GUID]

\* ------------------------------------------------------------ ParseRSSFeed
\* The errors ParseRSSFeed returns.
ErrFetch     == "failed to make request after retries"
ErrStatus(s) == "unexpected status code: " \o ToString(s)
ErrRead      == "failed to read response body"
ErrDecode    == "failed to parse XML"
ErrEmpty     == "no news releases found in feed"
\* The errors runParsers returns from its send loop and from marking.
ErrSend      == "send failed"
ErrMark      == "BatchMarkPublished failed"

\* Accepting every 2xx status instead of 200 alone.
statusAccepted_any2xx(s) == s \in 200..299
\* resp.StatusCode != http.StatusOK is an error.
statusAccepted(s) == s = 200

\* What ParseRSSFeed does with a response: <<error, posts>>.
ParseResponse(i, s, kind, body) ==
    IF ~statusAccepted(s) THEN <<ErrStatus(s), <<>>>>
    ELSE IF kind = "readerr" THEN <<ErrRead, <<>>>>
    ELSE IF kind = "malformed" THEN <<ErrDecode, <<>>>>
    ELSE LET ps == ParseItems(i, body, 1, <<>>)
         IN  IF Len(ps) = 0 THEN <<ErrEmpty, <<>>>> ELSE <<"nil", ps>>

\* --------------------------------------------------------- external calls
\* dynamo.IsArticlePublished(ctx, db, guid): "pub", "unpub", or "err".
IsArticlePublished(c, store, g) ==
    IF c THEN {"err"}
    ELSE {"err", IF g \in store THEN "pub" ELSE "unpub"}

\* dynamo.BatchMarkPublished(ctx, db, arts): the possible <<error, new store>>.
BatchMarkPublished(c, store, gs) ==
    {<<ErrMark, store \cup S>> : S \in (SUBSET gs) \ {gs}}
    \cup (IF c THEN {} ELSE {<<"nil", store \cup gs>>})

\* ------------------------------------------------------ collectUnpublished
\* A snippet record that does not carry the GUID over.
FormatPost_no_guid(art) ==
    [GUID |-> 0, Title |-> "<p>" \o art.Title \o "</p>",
     Header |-> "", Link |-> "", src |-> art.src]
\* The inlined FormatPost of email mode: only GUID and the snippet survive.
FormatPost(art) ==
    [GUID |-> art.GUID, Title |-> "<p>" \o art.Title \o "</p>",
     Header |-> "", Link |-> "", src |-> art.src]

\* Keeping an article whose lookup failed.
Keep_on_error(v) == v # "pub"
\* Keeping every article, whatever the store answered.
Keep_all(v) == TRUE
\* Keeping the articles the store reported as published.
Keep_published(v) == v # "err"
\* The article goes on only when the lookup returned (false, nil).
Keep(v) == v = "unpub"

\* One iteration of collectUnpublished's loop for article art, verdict v.
CollectStep(acc, art, v, target) ==
    IF ~Keep(v) THEN acc
    ELSE IF target = "email"
         THEN (IF art.Title = "" THEN acc ELSE Append(acc, FormatPost(art)))
         ELSE Append(acc, art)

\* ------------------------------------------------------------ aggregation
\* Visiting the slots in the order the tasks finished.
SlotOrder_completion(n, fin) == fin
\* for _, res := range results: the slots in index order.
SlotOrder(n, fin) == [j \in 1..n |-> j]

\* A seen set that never reports a GUID.
IsSeen_never(s, g) == FALSE
\* seen[art.GUID]
IsSeen(s, g) == g \in s

\* Leaving the slot loop at the first errored slot.
AfterErrSlot_break(j, n) == n + 1
\* if res.Err != nil { continue }
AfterErrSlot(j, n) == j + 1

RECURSIVE AddArticles(_, _, _)
\* The inner loop over one slot's articles; st = [all, seen].
AddArticles(st, arts, k) ==
    IF k > Len(arts) THEN st
    ELSE IF IsSeen(st.seen, arts[k].GUID) THEN AddArticles(st, arts, k + 1)
    ELSE AddArticles([all  |-> Append(st.all, arts[k]),
                      seen |-> st.seen \cup {arts[k].GUID}], arts, k + 1)

RECURSIVE AggregateFrom(_, _, _, _)
\* The outer loop over the result slots.
AggregateFrom(res, order, j, st) ==
    IF j > Len(order) THEN st
    ELSE LET r == res[order[j]]
         IN  IF r.Err # "nil"
             THEN AggregateFrom(res, order, AfterErrSlot(j, Len(order)), st)
             ELSE AggregateFrom(res, order, j + 1, AddArticles(st, r.Articles, 1))

Aggregate(res, fin) ==
    AggregateFrom(res, SlotOrder(Len(res), fin), 1, [all |-> <<>>, seen |-> {}])

\* A task that returns without releasing the wait group.
wgDone_forgotten(w) == w
\* defer wg.Done()
wgDone(w) == w - 1

\* A barrier that lets the main routine through at once.
BarrierOpen_early(w) == TRUE
\* wg.Wait() returns when the counter is zero.
BarrierOpen(w) == w = 0

\* Sending even an empty list.
NothingNew_never(n) == FALSE
\* if len(allToPublish) == 0 { return nil }
NothingNew(n) == n = 0

\* Going on to mark whatever the send loop ended with.
AfterSendLoop_always_mark(sendErr) == "mark"
\* if sendErr != nil { return sendErr }
AfterSendLoop(sendErr) == IF sendErr # "nil" THEN "return" ELSE "mark"

\* ------------------------------------------------------------------- Init
\* No ParseRSSFeed call and no externalFromContent call is being followed.
ParserIdle ==
    /\ ppc = "idle"
    /\ feedCfg = [Header |-> <<>>]
    /\ xmlBody = [kind |-> "none", items |-> <<>>]
    /\ itemIdx = 0
    /\ parsed = <<>>
    /\ origin = <<>>
    /\ parseRet = [posts |-> <<>>, err |-> "running"]
    /\ escaped = <<>>
    /\ extLink = [h |-> <<>>, ok |-> FALSE]

Init ==
    /\ ParserIdle
    /\ envTarget \in Targets
    /\ published = {}
    /\ delivered = {}
    /\ pubAtStart = {}
    /\ run = 1
    /\ cancelled = FALSE
    /\ pc = "launch"
    /\ idx = 1
    /\ wg = 0
    /\ tpc = [i \in FeedIdx |-> "idle"]
    /\ attempts = [i \in FeedIdx |-> 0]
    /\ status = [i \in FeedIdx |-> 0]
    /\ posts = [i \in FeedIdx |-> <<>>]
    /\ toPublish = [i \in FeedIdx |-> <<>>]
    /\ lookups = [i \in FeedIdx |-> <<>>]
    /\ results = [i \in FeedIdx |-> emptyResult]
    /\ finishOrder = <<>>
    /\ allToPublish = <<>>
    /\ seen = {}
    /\ attempt = 0
    /\ sendLog = <<>>
    /\ markCalls = 0
    /\ sent = <<>>
    /\ marked = <<>>
    /\ ret = "running"

\* ------------------------------------------------------------- feed tasks
\* go func(i, fc) {...}(idx, cfg) after wg.Add(1)
Launch ==
    /\ pc = "launch"
    /\ idx <= NumFeeds
    /\ tpc' = [tpc EXCEPT ![idx] = "fetch"]
    /\ wg' = wg + 1
    /\ idx' = idx + 1
    /\ UNCHANGED <<parserVars, envTarget, cancelled, run, storeVars, attempts, status,
                   posts, toPublish, lookups, results, finishOrder, pc,
                   allToPublish, seen, attempt, sendLog, markCalls, sent,
                   marked, ret>>

\* The task of feed i writes its slot and returns (defer wg.Done()).
Finish(i, res) ==
    /\ results' = [results EXCEPT ![i] = res]
    /\ tpc' = [tpc EXCEPT ![i] = "done"]
    /\ wg' = wgDone(wg)
    /\ finishOrder' = Append(finishOrder, i)

\* client.Do(req) returns a transport error.
TransportFail(i) ==
    /\ tpc[i] = "fetch"
    /\ attempts[i] < maxRetries
    /\ attempts' = [attempts EXCEPT ![i] = @ + 1]
    /\ IF attempts[i] + 1 < maxRetries
       THEN UNCHANGED <<tpc, wg, results, finishOrder>>
       ELSE Finish(i, [Articles |-> <<>>, Err |-> ErrFetch])
    /\ UNCHANGED <<parserVars, envTarget, cancelled, run, storeVars, mainVars, status,
                   posts, toPublish, lookups>>

\* client.Do(req) returns a response with status s; the rest of ParseRSSFeed
\* runs on it.
Response(i, s, kind, body) ==
    /\ tpc[i] = "fetch"
    /\ attempts[i] < maxRetries
    /\ ~cancelled
    /\ attempts' = [attempts EXCEPT ![i] = @ + 1]
    /\ status' = [status EXCEPT ![i] = s]
    /\ LET r == ParseResponse(i, s, kind, body)
       IN  IF r[1] # "nil"
           THEN /\ Finish(i, [Articles |-> <<>>, Err |-> r[1]])
                /\ UNCHANGED posts
           ELSE /\ posts' = [posts EXCEPT ![i] = r[2]]
                /\ tpc' = [tpc EXCEPT ![i] = "collect"]
                /\ UNCHANGED <<wg, results, finishOrder>>
    /\ UNCHANGED <<parserVars, envTarget, cancelled, run, storeVars, mainVars,
                   toPublish, lookups>>

\* One iteration of collectUnpublished's loop in the task of feed i; after
\* the last one the task stores the list in its slot.
Check(i, v) ==
    /\ tpc[i] = "collect"
    /\ LET k   == Len(lookups[i]) + 1
           art == posts[i][k]
           acc == CollectStep(toPublish[i], art, v, envTarget)
       IN  /\ v \in IsArticlePublished(cancelled, published, art.GUID)
           /\ lookups' = [lookups EXCEPT ![i] = Append(@, [k |-> k, GUID |-> art.GUID, v |-> v])]
           /\ toPublish' = [toPublish EXCEPT ![i] = acc]
           /\ IF k < Len(posts[i])
              THEN UNCHANGED <<tpc, wg, results, finishOrder>>
              ELSE Finish(i, [Articles |-> acc, Err |-> "nil"])
    /\ UNCHANGED <<parserVars, envTarget, cancelled, run, storeVars, mainVars, attempts,
                   status, posts>>

\* The inbound context is cancelled (or its deadline passes).
Cancel ==
    /\ ret = "running"
    /\ ~cancelled
    /\ cancelled' = TRUE
    /\ UNCHANGED <<parserVars, envTarget, run, storeVars, mainVars, taskVars>>

\* ----------------------------------------------------------- main routine
\* wg.Wait() returns: every task has returned and its fetch loop counter is
\* gone with its frame.
Wait ==
    /\ pc = "launch"
    /\ idx > NumFeeds
    /\ BarrierOpen(wg)
    /\ pc' = "aggregate"
    /\ attempts' = [i \in FeedIdx |-> 0]
    /\ UNCHANGED <<parserVars, envTarget, cancelled, run, storeVars, tpc, status, posts,
                   toPublish, lookups, results, finishOrder, wg, idx,
                   allToPublish, seen, attempt, sendLog, markCalls, sent,
                   marked, ret>>

\* The aggregation loops and the "nothing new" return.
AggregateResults ==
    /\ pc = "aggregate"
    /\ LET st == Aggregate(results, finishOrder)
       IN  /\ allToPublish' = st.all
           /\ seen' = st.seen
           /\ IF NothingNew(Len(st.all))
              THEN pc' = "done" /\ ret' = "nil" /\ UNCHANGED attempt
              ELSE pc' = "send" /\ attempt' = 1 /\ UNCHANGED ret
    /\ UNCHANGED <<parserVars, envTarget, cancelled, run, storeVars, taskVars, idx,
                   sendLog, markCalls, sent, marked>>

\* What follows the send loop when it ends with sendErr.
LeaveSendLoop(sendErr) ==
    IF AfterSendLoop(sendErr) = "return"
    THEN pc' = "done" /\ ret' = sendErr
    ELSE pc' = "mark" /\ UNCHANGED ret

\* A send call returns nil: the notifier got the whole list.
SendOk ==
    /\ pc = "send"
    /\ sendLog' = Append(sendLog, "ok")
    /\ sent' = GuidSeq(allToPublish)
    /\ delivered' = delivered \cup GuidsOf(allToPublish)
    /\ LeaveSendLoop("nil")
    /\ UNCHANGED <<parserVars, envTarget, cancelled, run, published, pubAtStart, taskVars,
                   idx, allToPublish, seen, attempt, markCalls, marked>>

\* A send call returns an error; the loop retries or gives up.
SendFail ==
    /\ pc = "send"
    /\ sendLog' = Append(sendLog, "err")
    /\ IF attempt < maxSendRetries
       THEN attempt' = attempt + 1 /\ UNCHANGED <<pc, ret>>
       ELSE LeaveSendLoop(ErrSend) /\ UNCHANGED attempt
    /\ sent' = GuidSeq(allToPublish)
    /\ UNCHANGED <<parserVars, envTarget, cancelled, run, storeVars, taskVars, idx,
                   allToPublish, seen, markCalls, marked>>

\* dynamo.BatchMarkPublished and the return that follows it.
Mark(out) ==
    /\ pc = "mark"
    /\ out \in BatchMarkPublished(cancelled, published, GuidsOf(allToPublish))
    /\ markCalls' = markCalls + 1
    /\ marked' = GuidSeq(allToPublish)
    /\ published' = out[2]
    /\ ret' = out[1]
    /\ pc' = "done"
    /\ UNCHANGED <<parserVars, envTarget, cancelled, run, delivered, pubAtStart, taskVars,
                   idx, allToPublish, seen, attempt, sendLog, sent>>

\* The scheduler invokes runParsers again, with a fresh context.
StartRun ==
    /\ pc = "done"
    /\ run < MaxRuns
    /\ run' = run + 1
    /\ cancelled' = FALSE
    /\ pubAtStart' = published
    /\ pc' = "launch"
    /\ idx' = 1
    /\ wg' = 0
    /\ tpc' = [i \in FeedIdx |-> "idle"]
    /\ attempts' = [i \in FeedIdx |-> 0]
    /\ status' = [i \in FeedIdx |-> 0]
    /\ posts' = [i \in FeedIdx |-> <<>>]
    /\ toPublish' = [i \in FeedIdx |-> <<>>]
    /\ lookups' = [i \in FeedIdx |-> <<>>]
    /\ results' = [i \in FeedIdx |-> emptyResult]
    /\ finishOrder' = <<>>
    /\ allToPublish' = <<>>
    /\ seen' = {}
    /\ attempt' = 0
    /\ sendLog' = <<>>
    /\ markCalls' = 0
    /\ sent' = <<>>
    /\ marked' = <<>>
    /\ ret' = "running"
    /\ UNCHANGED <<parserVars, envTarget, published, delivered>>

Next ==
    \/ Launch
    \/ \E i \in FeedIdx : TransportFail(i)
    \/ \E i \in FeedIdx, s \in Statuses, kind \in {"body", "readerr", "malformed"} :
          \E body \in (IF kind = "body" THEN Bodies ELSE {<<>>}) :
             Response(i, s, kind, body)
    \/ \E i \in FeedIdx, v \in {"pub", "unpub", "err"} : Check(i, v)
    \/ Cancel
    \/ Wait
    \/ AggregateResults
    \/ SendOk
    \/ SendFail
    \/ \E out \in {"nil", ErrMark} \X SUBSET GUIDs : Mark(out)
    \/ StartRun

Spec == Init /\ [][Next]_vars

\* ================================================================ parser
\* The part of ParseRSSFeed after the body is read, and externalFromContent.
\* A Go string is modelled as a sequence of tokens: a token is a space, a
\* punctuation mark, an HTML entity or a run of other characters.

MaxParseItems == 2    \* items in one decoded feed document
MaxElements   == 2    \* elements in one content string given to the resolver

NoRun ==
    /\ envTarget = "telegram"
    /\ published = {}
    /\ delivered = {}
    /\ pubAtStart = {}
    /\ run = 1
    /\ cancelled = FALSE
    /\ pc = "launch"
    /\ idx = 1
    /\ wg = 0
    /\ tpc = [i \in FeedIdx |-> "idle"]
    /\ attempts = [i \in FeedIdx |-> 0]
    /\ status = [i \in FeedIdx |-> 0]
    /\ posts = [i \in FeedIdx |-> <<>>]
    /\ toPublish = [i \in FeedIdx |-> <<>>]
    /\ lookups = [i \in FeedIdx |-> <<>>]
    /\ results = [i \in FeedIdx |-> emptyResult]
    /\ finishOrder = <<>>
    /\ allToPublish = <<>>
    /\ seen = {}
    /\ attempt = 0
    /\ sendLog = <<>>
    /\ markCalls = 0
    /\ sent = <<>>
    /\ marked = <<>>
    /\ ret = "running"

\* ---------------------------------------------------------------- strings
RECURSIVE TrimLeft(_)
TrimLeft(s) == IF s # <<>> /\ Head(s) = " " THEN TrimLeft(Tail(s)) ELSE s

RECURSIVE TrimRight(_)
TrimRight(s) ==
    IF s # <<>> /\ s[Len(s)] = " " THEN TrimRight(SubSeq(s, 1, Len(s) - 1)) ELSE s

\* strings.TrimSpace
TrimSpace(s) == TrimRight(TrimLeft(s))

\* strings.ReplaceAll(s, old, "") for a one-token old
ReplaceAll(s, old) == SelectSeq(s, LAMBDA t : t # old)

\* strings.HasPrefix, strings.HasSuffix
HasPrefix(s, prefix) ==
    Len(s) >= Len(prefix) /\ SubSeq(s, 1, Len(prefix)) = prefix

HasSuffix(s, suffix) ==
    Len(s) >= Len(suffix) /\ SubSeq(s, Len(s) - Len(suffix) + 1, Len(s)) = suffix

\* strings.ToLower
LowerToken(t) ==
    CASE t = "WWW"    -> "www"
      [] t = "Reddit" -> "reddit"
      [] t = "COM"    -> "com"
      [] t = "HTTPS"  -> "https"
      [] t = "HREF="  -> "href="
      [] t = "A"      -> "a"
      [] OTHER        -> t

ToLower(s) == [k \in 1..Len(s) |-> LowerToken(s[k])]

\* html.UnescapeString: every entity becomes the character it names, once.
UnescapeToken(t) ==
    CASE t = "&lt;"     -> "<"
      [] t = "&gt;"     -> ">"
      [] t = "&quot;"   -> "\""
      [] t = "&amp;"    -> "&"
      [] t = "&#32;"    -> " "
      [] t = "&amp;lt;" -> "&lt;"
      [] OTHER          -> t

UnescapeString(s) == [k \in 1..Len(s) |-> UnescapeToken(s[k])]

\* ---------------------------------------------------------------- url.Parse
SchemeTokens == {"http", "https", "HTTPS", "ftp", "mailto"}
PathTokens   == {"/", "/y", "/z", "/r/x"}
PortTokens   == {":443"}

\* The authority of a URL: everything up to the path.
RECURSIVE Authority(_)
Authority(r) ==
    IF r = <<>> \/ Head(r) \in PathTokens THEN <<>>
    ELSE <<Head(r)>> \o Authority(Tail(r))

\* url.Parse: Scheme is lower-cased, Host is "host" or "host:port".
ParseURL(h) ==
    IF \E k \in 1..Len(h) : h[k] = "%zz"
    THEN [err |-> TRUE, Scheme |-> "", Host |-> <<>>]
    ELSE IF Len(h) >= 2 /\ h[1] \in SchemeTokens /\ h[2] = "://"
    THEN [err |-> FALSE, Scheme |-> LowerToken(h[1]),
          Host |-> Authority(SubSeq(h, 3, Len(h)))]
    ELSE IF Len(h) >= 2 /\ h[1] \in SchemeTokens /\ h[2] = ":"
    THEN [err |-> FALSE, Scheme |-> LowerToken(h[1]), Host |-> <<>>]
    ELSE IF Len(h) >= 1 /\ h[1] = "//"
    THEN [err |-> FALSE, Scheme |-> "", Host |-> Authority(Tail(h))]
    ELSE [err |-> FALSE, Scheme |-> "", Host |-> <<>>]

\* ------------------------------------------------------------- isRedditHost
isRedditHost(host) ==
    \/ host = <<"redd", ".", "it">>
    \/ HasSuffix(host, <<".", "reddit", ".", "com">>)
    \/ host = <<"reddit", ".", "com">>
    \/ HasSuffix(host, <<".", "redditmedia", ".", "com">>)
    \/ host = <<"redditmedia", ".", "com">>

\* ------------------------------------------------------ nethtml.Tokenizer
AttrKeys == {"href=", "HREF=", "class="}

KeyOf(t) == IF LowerToken(t) = "href=" THEN "href" ELSE "class"

\* Index of the ">" that closes the tag scanned from position j, 0 if none.
RECURSIVE TagEnd(_, _, _)
TagEnd(raw, j, quoted) ==
    IF j > Len(raw) THEN 0
    ELSE IF raw[j] = "\"" THEN TagEnd(raw, j + 1, ~quoted)
    ELSE IF raw[j] = ">" /\ ~quoted THEN j
    ELSE TagEnd(raw, j + 1, quoted)

\* Index of the quote that closes the attribute value scanned from j.
RECURSIVE ValueEnd(_, _)
ValueEnd(body, j) ==
    IF j > Len(body) \/ body[j] = "\"" THEN j ELSE ValueEnd(body, j + 1)

RECURSIVE TagAttrs(_, _, _)
TagAttrs(body, j, acc) ==
    IF j > Len(body) THEN acc
    ELSE IF body[j] \in AttrKeys /\ j < Len(body) /\ body[j + 1] = "\""
    THEN LET e == ValueEnd(body, j + 2)
         IN  TagAttrs(body, e + 1,
                      Append(acc, [Key |-> KeyOf(body[j]),
                                   Val |-> SubSeq(body, j + 2, e - 1)]))
    ELSE TagAttrs(body, j + 1, acc)

\* The token of one tag; names and attribute keys are lower-cased.
TagToken(body) ==
    LET name == LowerToken(body[1])
    IN  IF name = "/a"
        THEN [Type |-> "EndTag", Data |-> "a", Attr |-> <<>>]
        ELSE [Type |-> IF body[Len(body)] = "/" THEN "SelfClosingTag"
                       ELSE "StartTag",
              Data |-> name, Attr |-> TagAttrs(body, 2, <<>>)]

TextToken == [Type |-> "Text", Data |-> "", Attr |-> <<>>]

\* The token stream z.Next() yields until ErrorToken.
RECURSIVE Tokenize(_, _, _)
Tokenize(raw, k, acc) ==
    IF k > Len(raw) THEN acc
    ELSE IF raw[k] = "<"
    THEN LET e == TagEnd(raw, k + 1, FALSE)
         IN  IF e = 0 THEN acc
             ELSE IF e = k + 1 THEN Tokenize(raw, e + 1, Append(acc, TextToken))
             ELSE Tokenize(raw, e + 1,
                           Append(acc, TagToken(SubSeq(raw, k + 1, e - 1))))
    ELSE Tokenize(raw, k + 1, Append(acc, TextToken))

\* ------------------------------------------------------ externalFromContent
NotFound == [h |-> <<>>, ok |-> FALSE]

\* for _, a := range t.Attr
RECURSIVE ScanAttrs(_, _)
ScanAttrs(attrs, j) ==
    IF j > Len(attrs) THEN NotFound
    ELSE IF attrs[j].Key # "href" THEN ScanAttrs(attrs, j + 1)
    ELSE LET h == TrimSpace(attrs[j].Val)
             u == ParseURL(h)
         IN  IF h = <<>> THEN ScanAttrs(attrs, j + 1)
             ELSE IF u.err \/ (u.Scheme # "http" /\ u.Scheme # "https")
             THEN ScanAttrs(attrs, j + 1)
             ELSE IF isRedditHost(ToLower(u.Host)) THEN ScanAttrs(attrs, j + 1)
             ELSE [h |-> h, ok |-> TRUE]

\* for { tt := z.Next() ... }
RECURSIVE ScanTokens(_, _)
ScanTokens(toks, k) ==
    IF k > Len(toks) THEN NotFound
    ELSE IF toks[k].Type \in {"StartTag", "SelfClosingTag"} /\ toks[k].Data = "a"
    THEN LET r == ScanAttrs(toks[k].Attr, 1)
         IN  IF r.ok THEN r ELSE ScanTokens(toks, k + 1)
    ELSE ScanTokens(toks, k + 1)

externalFromContent(content) ==
    IF TrimSpace(content) = <<>> THEN NotFound
    ELSE ScanTokens(Tokenize(UnescapeString(content), 1, <<>>), 1)

\* ----------------------------------------------------------------- inputs
\* Values of an href attribute.
Hrefs ==
    { <<>>,
      <<" ">>,
      <<"https", "://", "news", ".", "test", "/y">>,
      <<" ", "http", "://", "news", ".", "test", "/z", " ">>,
      <<"HTTPS", "://", "notreddit", ".", "com", "/y">>,
      <<"https", "://", "reddit", ".", "com", "/r/x">>,
      <<"https", "://", "WWW", ".", "Reddit", ".", "COM", "/r/x">>,
      <<"https", "://", "www", ".", "reddit", ".", "com", ":443", "/r/x">>,
      <<"https", "://", "i", ".", "redditmedia", ".", "com", "/y">>,
      <<"https", "://", "redd", ".", "it", "/z">>,
      <<"ftp", "://", "news", ".", "test", "/y">>,
      <<"mailto", ":", "a@news.test">>,
      <<"//", "news", ".", "test", "/y">>,
      <<"/r/x">>,
      <<"https", "://", "%zz">> }

ExtHref  == <<"https", "://", "news", ".", "test", "/y">>
SelfHref == <<"https", "://", "reddit", ".", "com", "/r/x">>

\* Escaped markup, as a feed carries it in <content type="html">.
Anchor(href) ==
    <<"&lt;", "a", " ", "href=", "&quot;">> \o href
       \o <<"&quot;", "&gt;", "txt", "&lt;", "/a", "&gt;">>

Elements ==
    {Anchor(h) : h \in Hrefs}
    \cup { <<"txt">>,
           <<" ">>,
           <<"&lt;", "img", " ", "href=", "&quot;">> \o ExtHref
              \o <<"&quot;", " ", "/", "&gt;">>,
           <<"&lt;", "A", " ", "class=", "&quot;", "c", "&quot;", " ",
             "href=", "&quot;">> \o SelfHref \o <<"&quot;", " ", "HREF=",
             "&quot;">> \o ExtHref \o <<"&quot;", "&gt;">>,
           <<"&amp;lt;", "a", " ", "href=", "&quot;">> \o ExtHref
              \o <<"&quot;", "&gt;">> }

RECURSIVE Concat(_)
Concat(ss) == IF ss = <<>> THEN <<>> ELSE Head(ss) \o Concat(Tail(ss))

Contents ==
    {Concat(es) : es \in UNION {[1..n -> Elements] : n \in 0..MaxElements}}

Headers ==
    { <<"Slashdot">>,
      <<"r/", "x">>,
      <<"r/", "ask", " ", "sci">>,
      <<>>,
      <<" ">>,
      <<"Ex", " ", "News">> }

SlashdotItems ==
    [Title : {<<>>, <<" ">>, <<" ", "T">>, <<"&#32;">>, <<"T", "&amp;", "U">>},
     Link  : {<<>>, <<" ">>, <<"L">>, <<" ", "L", " ">>}]

AtomEntries ==
    [Title   : {<<>>, <<" ">>, <<" ", "T">>},
     Link    : [Href : {<<>>, <<" ">>, <<" ", "L">>}],
     ID      : {<<>>, <<" ">>, <<" ", "id">>},
     Content : {<<>>, <<" ">>, Anchor(SelfHref), Anchor(SelfHref) \o Anchor(ExtHref)}]

RSSItems ==
    [Title    : {<<>>, <<" ">>, <<" ", "T", " ">>},
     Link     : {<<>>, <<" ">>, <<" ", "L">>},
     GUID     : {<<>>, <<" ">>, <<" ", "g", " ">>},
     ItemID   : {<<>>, <<"i", " ">>},
     AtomLink : [Href : {<<>>, <<" ">>, <<"AL", " ">>}]]

\* What the variant chosen by the header decodes a well-formed body into.
ItemsFor(header) ==
    IF header = <<"Slashdot">> THEN SlashdotItems
    ELSE IF HasPrefix(header, <<"r/">>) THEN AtomEntries
    ELSE RSSItems

\* ----------------------------------------------------- ParseRSSFeed, items
Post(guid, title, header, link) ==
    [GUID |-> guid, Title |-> title, Header |-> header, Link |-> link]

\* guid from a stable identifier: prefixed with the header without spaces
SynthGUID_no_prefix(h, candidate) == candidate

SynthGUID(h, candidate) ==
    IF h # <<>> THEN h \o <<":">> \o candidate ELSE candidate

\* guid = link // fallback, do NOT prefix
FallbackGUID_prefixed(h, link) == SynthGUID(h, link)

FallbackGUID(h, link) == link

\* One iteration of the Slashdot loop: the posts it appends.
ParseSlashdotItem(header, item) ==
    LET title == UnescapeString(TrimSpace(item.Title))
    IN  IF title = <<>> \/ item.Link = <<>> THEN <<>>
        ELSE <<Post(item.Link, title, header, item.Link)>>

\* link of an Atom entry: the outbound content link, else the entry's own
AtomLinkOf(entry) ==
    LET ext == externalFromContent(entry.Content)
    IN  IF ext.ok THEN ext.h ELSE TrimSpace(entry.Link.Href)

\* One iteration of the Atom loop.
ParseAtomEntry(header, entry) ==
    LET h         == ReplaceAll(header, " ")
        title     == TrimSpace(entry.Title)
        link      == AtomLinkOf(entry)
        candidate == TrimSpace(entry.ID)
    IN  IF title = <<>> THEN <<>>
        ELSE IF candidate # <<>>
        THEN <<Post(SynthGUID(h, candidate), title, header, link)>>
        ELSE IF link # <<>>
        THEN <<Post(FallbackGUID(h, link), title, header, link)>>
        ELSE <<>>

\* link of an RSS item: link, else atom:link href, else guid
RSSLinkOf(item) ==
    LET l1 == TrimSpace(item.Link)
        l2 == IF l1 = <<>> /\ item.AtomLink.Href # <<>>
              THEN TrimSpace(item.AtomLink.Href) ELSE l1
    IN  IF l2 = <<>> /\ TrimSpace(item.GUID) # <<>>
        THEN TrimSpace(item.GUID) ELSE l2

\* candidate of an RSS item: guid, else itemID
RSSCandidateOf(item) ==
    IF TrimSpace(item.GUID) = <<>> THEN TrimSpace(item.ItemID)
    ELSE TrimSpace(item.GUID)

\* One iteration of the RSS loop.
ParseRSSItem(header, item) ==
    LET h         == ReplaceAll(header, " ")
        title     == TrimSpace(item.Title)
        link      == RSSLinkOf(item)
        candidate == RSSCandidateOf(item)
    IN  IF title = <<>> \/ link = <<>> THEN <<>>
        ELSE IF candidate # <<>>
        THEN <<Post(SynthGUID(h, candidate), title, header, link)>>
        ELSE <<Post(FallbackGUID(h, link), title, header, link)>>

\* --------------------------------------------------- ParseRSSFeed, actions
ParserInit ==
    /\ NoRun
    /\ itemIdx = 0
    /\ parsed = <<>>
    /\ origin = <<>>
    /\ parseRet = [posts |-> <<>>, err |-> "running"]
    /\ extLink = NotFound
    /\ \/ /\ ppc = "decode"
          /\ feedCfg \in [Header : Headers]
          /\ \/ xmlBody = [kind |-> "malformed", items |-> <<>>]
             \/ \E n \in 0..MaxParseItems :
                   \E doc \in [1..n -> ItemsFor(feedCfg.Header)] :
                      xmlBody = [kind |-> "xml", items |-> doc]
          /\ escaped = <<>>
       \/ /\ ppc = "resolve"
          /\ feedCfg = [Header |-> <<>>]
          /\ xmlBody = [kind |-> "none", items |-> <<>>]
          /\ escaped \in Contents

Slashdot(header) == header = <<"Slashdot">>
Atom(header)     == ~Slashdot(header) /\ HasPrefix(header, <<"r/">>)
RSS(header)      == ~Slashdot(header) /\ ~HasPrefix(header, <<"r/">>)

\* decodeXML(body, &v) of the variant the header selects
Decode ==
    /\ ppc = "decode"
    /\ IF xmlBody.kind = "malformed"
       THEN /\ ppc' = "returned"
            /\ parseRet' = [posts |-> <<>>, err |-> ErrDecode]
            /\ UNCHANGED itemIdx
       ELSE /\ ppc' = "items"
            /\ itemIdx' = 1
            /\ UNCHANGED parseRet
    /\ UNCHANGED <<feedCfg, xmlBody, parsed, origin, escaped, extLink>>
    /\ UNCHANGED <<envTarget, cancelled, run, storeVars, taskVars, mainVars>>

\* One iteration of the range loop: append what the item yields.
LoopStep(new) ==
    /\ ppc = "items"
    /\ itemIdx <= Len(xmlBody.items)
    /\ parsed' = parsed \o new
    /\ origin' = IF new = <<>> THEN origin ELSE Append(origin, itemIdx)
    /\ itemIdx' = itemIdx + 1
    /\ UNCHANGED <<ppc, feedCfg, xmlBody, parseRet, escaped, extLink>>
    /\ UNCHANGED <<envTarget, cancelled, run, storeVars, taskVars, mainVars>>

SlashdotStep ==
    /\ Slashdot(feedCfg.Header)
    /\ itemIdx \in 1..Len(xmlBody.items)
    /\ LoopStep(ParseSlashdotItem(feedCfg.Header, xmlBody.items[itemIdx]))

AtomStep ==
    /\ Atom(feedCfg.Header)
    /\ itemIdx \in 1..Len(xmlBody.items)
    /\ LoopStep(ParseAtomEntry(feedCfg.Header, xmlBody.items[itemIdx]))

RSSStep ==
    /\ RSS(feedCfg.Header)
    /\ itemIdx \in 1..Len(xmlBody.items)
    /\ LoopStep(ParseRSSItem(feedCfg.Header, xmlBody.items[itemIdx]))

\* if len(posts) == 0 { return nil, error }; return posts, nil
NoPosts(ps) == Len(ps) = 0

Return ==
    /\ ppc = "items"
    /\ itemIdx > Len(xmlBody.items)
    /\ ppc' = "returned"
    /\ parseRet' = IF NoPosts(parsed) THEN [posts |-> <<>>, err |-> ErrEmpty]
                   ELSE [posts |-> parsed, err |-> "nil"]
    /\ UNCHANGED <<feedCfg, xmlBody, itemIdx, parsed, origin, escaped, extLink>>
    /\ UNCHANGED <<envTarget, cancelled, run, storeVars, taskVars, mainVars>>

\* One call of externalFromContent.
Resolve ==
    /\ ppc = "resolve"
    /\ extLink' = externalFromContent(escaped)
    /\ ppc' = "resolved"
    /\ UNCHANGED <<feedCfg, xmlBody, itemIdx, parsed, origin, parseRet, escaped>>
    /\ UNCHANGED <<envTarget, cancelled, run, storeVars, taskVars, mainVars>>

ParserNext ==
    \/ Decode
    \/ SlashdotStep
    \/ AtomStep
    \/ RSSStep
    \/ Return
    \/ Resolve

ParserSpec == ParserInit /\ [][ParserNext]_vars

\* ================================================================ claims
\* The aggregation loops have run in the current run.
Aggregated == pc \in {"send", "mark", "done"}

\* Article origin a comes before origin b: an earlier feed, or the same feed
\* and an earlier parse position.
SrcBefore(a, b) == a[1] < b[1] \/ (a[1] = b[1] /\ a[2] < b[2])

Succeeded(i) == tpc[i] = "done" /\ results[i].Err = "nil"
Failed(i)    == tpc[i] = "done" /\ results[i].Err # "nil"

\* The verdicts the store gave for the k-th post of feed i.
VerdictsOf(i, k) == {lookups[i][c].v : c \in {d \in 1..Len(lookups[i]) : lookups[i][d].k = k}}

SrcsOf(arts) == [k \in 1..Len(arts) |-> arts[k].src]

\* ---- C1
\* C1: in the aggregated list every article of a feed declared earlier stands
\* before every article of a feed declared later, and the articles of one
\* feed keep their parse order, whatever order the tasks finished in.
C1_OrderPreserved ==
    Aggregated =>
        \A a, b \in 1..Len(allToPublish) :
            a < b => SrcBefore(allToPublish[a].src, allToPublish[b].src)

\* The later feed finished first, and both feeds have articles in the list.
C1_Witness ==
    /\ Aggregated
    /\ finishOrder[1] = 2
    /\ \E a, b \in 1..Len(allToPublish) :
          /\ allToPublish[a].src[1] = 1
          /\ allToPublish[b].src[1] = 2

\* ---- C2
\* C2: the aggregated list holds no GUID twice; every GUID held by a
\* succeeded slot is in the list, and the entry kept for it is the first
\* occurrence over the slots in declaration order.
C2_NoDuplicateFirstWins ==
    Aggregated =>
        /\ \A a, b \in 1..Len(allToPublish) :
              a # b => allToPublish[a].GUID # allToPublish[b].GUID
        /\ \A a \in 1..Len(allToPublish) :
              LET e == allToPublish[a]
              IN  /\ results[e.src[1]].Err = "nil"
                  /\ \E k \in 1..Len(results[e.src[1]].Articles) :
                        results[e.src[1]].Articles[k] = e
        /\ \A i \in FeedIdx :
              results[i].Err = "nil" =>
                 \A k \in 1..Len(results[i].Articles) :
                    LET x == results[i].Articles[k]
                    IN  \E a \in 1..Len(allToPublish) :
                           /\ allToPublish[a].GUID = x.GUID
                           /\ ~SrcBefore(x.src, allToPublish[a].src)

\* Two feeds hold the same GUID in their slots, and so does one feed twice.
C2_Witness ==
    /\ Aggregated
    /\ Len(results[1].Articles) = 2
    /\ results[1].Articles[1].GUID = results[1].Articles[2].GUID
    /\ Len(results[2].Articles) >= 1
    /\ results[2].Articles[1].GUID = results[1].Articles[1].GUID
    /\ Len(allToPublish) = 1

\* ---- C3
\* The posts of feed i the store reported as unpublished, by origin.
RECURSIVE UnpubFrom(_, _)
UnpubFrom(i, k) ==
    IF k > Len(posts[i]) THEN <<>>
    ELSE IF VerdictsOf(i, k) = {"unpub"}
         THEN <<posts[i][k]>> \o UnpubFrom(i, k + 1)
         ELSE UnpubFrom(i, k + 1)

\* The output of a run configured with the succeeded feeds only: their
\* unpublished posts in declaration order.
RECURSIVE SucceededOnly(_)
SucceededOnly(i) ==
    IF i > NumFeeds THEN <<>>
    ELSE IF Succeeded(i) THEN UnpubFrom(i, 1) \o SucceededOnly(i + 1)
    ELSE SucceededOnly(i + 1)

\* The first occurrence of every GUID of arts, in order.
RECURSIVE FirstOfEachGUID(_, _)
FirstOfEachGUID(arts, k) ==
    IF k > Len(arts) THEN <<>>
    ELSE IF \E j \in 1..(k - 1) : arts[j].GUID = arts[k].GUID
         THEN FirstOfEachGUID(arts, k + 1)
         ELSE <<arts[k]>> \o FirstOfEachGUID(arts, k + 1)

\* C3: a failed feed (fetch error after retries, non-200 status, read or
\* decode error, zero articles) contributes no article; the aggregated list
\* is what the succeeded feeds alone would have produced: every post of
\* theirs the store reported unpublished, GUID-distinct, in order.  Every task
\* runs to its end and the run never returns a feed's error.
C3_FailureIsolation ==
    Aggregated =>
        /\ \A i \in FeedIdx : tpc[i] = "done"
        /\ \A i \in FeedIdx :
              Failed(i) =>
                 /\ results[i].Articles = <<>>
                 /\ \A a \in 1..Len(allToPublish) : allToPublish[a].src[1] # i
        /\ SrcsOf(allToPublish) = SrcsOf(FirstOfEachGUID(SucceededOnly(1), 1))
        /\ ret \in {"running", "nil", ErrSend, ErrMark}

\* Feed 1 answered 500, feed 2 succeeded and its articles are in the list.
C3_Witness ==
    /\ Aggregated
    /\ status[1] = 500
    /\ Failed(1)
    /\ Succeeded(2)
    /\ Len(allToPublish) >= 1
    /\ allToPublish[1].src[1] = 2

\* ---- C4
\* The last send call of this run returned nil.
Sent == Len(sendLog) >= 1 /\ sendLog[Len(sendLog)] = "ok"

\* C4 as stated: no article is delivered by two different send calls, within
\* a run or across runs.
C4_ExactlyOnce ==
    [][SendOk => GuidsOf(allToPublish) \cap delivered = {}]_vars

\* C4 amended: a send call never delivers an article whose GUID is recorded
\* in the published store, and at most one send call of a run succeeds.
C4_NeverAfterRecorded ==
    /\ [][SendOk => GuidsOf(allToPublish) \cap published = {}]_vars
    /\ [](Cardinality({k \in 1..Len(sendLog) : sendLog[k] = "ok"}) <= 1)

\* A later run delivers a list while the store holds GUIDs of an earlier run.
C4_Witness ==
    /\ run = 2
    /\ published # {}
    /\ Sent
    /\ GuidsOf(allToPublish) # {}

\* ---- C5
AllSendsFailed ==
    /\ Len(sendLog) = maxSendRetries
    /\ \A k \in 1..Len(sendLog) : sendLog[k] = "err"

\* C5: BatchMarkPublished is called at most once per run and only after a
\* send call returned success; when every send attempt failed it is not
\* called, the run returns the send error and the store is as the run found it.
C5_MarkAfterDelivery ==
    /\ markCalls <= 1
    /\ (markCalls = 1 \/ pc = "mark") => Sent
    /\ (\A k \in 1..Len(sendLog) : sendLog[k] = "err") =>
          markCalls = 0 /\ pc # "mark" /\ published = pubAtStart
    /\ (pc = "done" /\ AllSendsFailed) => ret = ErrSend
    /\ ret = ErrSend => AllSendsFailed

\* The first send failed, the retry succeeded, and the list was marked once.
C5_Witness ==
    /\ sendLog = <<"err", "ok">>
    /\ markCalls = 1
    /\ published # pubAtStart

\* ---- C6
\* C6: every article of the aggregated list was looked up in the store
\* exactly once in this run, under its own GUID, and the answer was "not
\* published"; no article the store reported as published is in the list.
C6_DedupGate ==
    Aggregated =>
        /\ \A a \in 1..Len(allToPublish) :
              LET e == allToPublish[a]
                  i == e.src[1]
                  calls == {c \in 1..Len(lookups[i]) : lookups[i][c].k = e.src[2]}
              IN  /\ Cardinality(calls) = 1
                  /\ \A c \in calls : /\ lookups[i][c].v = "unpub"
                                      /\ lookups[i][c].GUID = e.GUID
        /\ \A i \in FeedIdx : \A c \in 1..Len(lookups[i]) :
              lookups[i][c].v = "pub" =>
                 \A a \in 1..Len(allToPublish) :
                    allToPublish[a].src # <<i, lookups[i][c].k>>

\* One feed returned a published and an unpublished article; the list holds
\* the unpublished one.
C6_Witness ==
    /\ Aggregated
    /\ \E i \in FeedIdx :
          /\ Len(lookups[i]) = 2
          /\ lookups[i][1].v = "pub"
          /\ lookups[i][2].v = "unpub"
          /\ lookups[i][2].GUID \in GuidsOf(allToPublish)

\* ---- C7
\* C7: a lookup error skips that article only: a task whose feed parsed
\* looks up every post, ends with a slot without error holding exactly the
\* posts reported unpublished, and a run returns no error other than the
\* send loop's or the marking's.
C7_LookupErrorSkipsOne ==
    /\ \A i \in FeedIdx :
          (tpc[i] = "done" /\ posts[i] # <<>>) =>
             /\ results[i].Err = "nil"
             /\ Len(lookups[i]) = Len(posts[i])
             /\ \A k \in 1..Len(posts[i]) : Cardinality(VerdictsOf(i, k)) = 1
             /\ SrcsOf(results[i].Articles) = SrcsOf(UnpubFrom(i, 1))
    /\ ret = ErrSend => AllSendsFailed
    /\ ret = ErrMark => markCalls = 1
    /\ ret \in {"running", "nil", ErrSend, ErrMark}

\* The first lookup of a feed failed, the second article was still looked up
\* and is in the slot, and the run went on to deliver it.
C7_Witness ==
    /\ ~cancelled
    /\ ret = "nil"
    /\ \E i \in FeedIdx :
          /\ Len(lookups[i]) = 2
          /\ lookups[i][1].v = "err"
          /\ lookups[i][2].v = "unpub"
          /\ SrcsOf(results[i].Articles) = <<<<i, 2>>>>
          /\ results[i].Articles[1].GUID \in delivered

\* ---- C8
\* C8: a task issues at most 3 requests; it issues one only while no earlier
\* one returned a response; a response ends the loop; the third transport
\* failure in a row ends the feed with the fetch error; a step issues a
\* request of one feed only.
C8_RetryBound ==
    /\ [](\A i \in FeedIdx :
            /\ attempts[i] <= 3
            /\ tpc[i] = "fetch" => (status[i] = 0 /\ attempts[i] < 3)
            /\ (tpc[i] = "done" /\ status[i] = 0) => results[i].Err = ErrFetch
            /\ results[i].Err = ErrFetch => (tpc[i] = "done" /\ status[i] = 0)
            /\ (results[i].Err = ErrFetch /\ pc = "launch") => attempts[i] = 3)
    /\ [][/\ \A i \in FeedIdx :
               attempts'[i] > attempts[i] =>
                  /\ tpc[i] = "fetch"
                  /\ status[i] = 0
                  /\ attempts'[i] = attempts[i] + 1
          /\ \A i, j \in FeedIdx :
               (attempts'[i] > attempts[i] /\ attempts'[j] > attempts[j]) => i = j
          /\ \A i \in FeedIdx :
               (status[i] = 0 /\ status'[i] # 0) => tpc'[i] # "fetch"
         ]_vars

\* Feed 1 exhausted its three attempts while feed 2 got a response at once.
C8_Witness ==
    /\ pc = "launch"
    /\ attempts[1] = 3
    /\ results[1].Err = ErrFetch
    /\ attempts[2] = 1
    /\ status[2] = 200

\* ---- C9
\* The task of feed i got past the status check of its response.
PastStatusCheck(i) ==
    /\ tpc[i] \in {"collect", "done"}
    /\ results[i].Err \in {"nil", ErrRead, ErrDecode, ErrEmpty}

\* C9 as stated: a response with a non-2xx status ends the feed with an
\* error and no further request, and every 2xx response goes on to parsing.
C9_Non2xxTerminal ==
    \A i \in FeedIdx :
        /\ (status[i] # 0 /\ status[i] \notin 200..299) =>
              (tpc[i] = "done" /\ results[i].Err = ErrStatus(status[i]))
        /\ status[i] \in 200..299 => PastStatusCheck(i)

\* C9 amended: a response with a status other than 200 ends the feed with
\* the status error and no further request is issued; every response with
\* status 200 goes on to reading and parsing the body.
C9_Non200Terminal ==
    /\ [](\A i \in FeedIdx :
            /\ (status[i] # 0 /\ status[i] # 200) =>
                  (tpc[i] = "done" /\ results[i].Err = ErrStatus(status[i]))
            /\ status[i] = 200 => PastStatusCheck(i))
    /\ [][\A i \in FeedIdx : status[i] # 0 => attempts'[i] <= attempts[i]]_vars

\* One feed was answered 500 on its second attempt and ended with the status
\* error, another was answered 200 and is checking its posts.
C9_Witness ==
    /\ status[1] = 500
    /\ attempts[1] = 2
    /\ results[1].Err = ErrStatus(500)
    /\ status[2] = 200
    /\ tpc[2] = "collect"

\* ---- C10
\* C10 as stated: a task that writes its slot after the context was
\* cancelled writes an error, never a success slot.
C10_CancelledTaskErrs ==
    [][\A i \in FeedIdx :
          (cancelled /\ tpc[i] # "done" /\ tpc'[i] = "done") =>
             results'[i].Err # "nil"]_vars

\* ---- C11
\* A step that begins a new run and resets the run's state.
NewRunStep == pc = "done" /\ pc' = "launch"

\* C11: slot i changes only in the step in which the task of feed i
\* returns, that step leaves every other task and slot alone and is taken
\* before the barrier is passed; the aggregated list and the seen set change
\* only in the aggregation step, which runs when every task has returned.
C11_RaceFreeFanIn ==
    /\ [][\A i \in FeedIdx :
             (results'[i] # results[i] \/ (tpc[i] # "done" /\ tpc'[i] = "done")) =>
                \/ NewRunStep
                \/ /\ tpc[i] \in {"fetch", "collect"}
                   /\ tpc'[i] = "done"
                   /\ pc = "launch" /\ pc' = "launch"
                   /\ \A j \in FeedIdx \ {i} :
                         /\ results'[j] = results[j]
                         /\ tpc'[j] = tpc[j]
                         /\ toPublish'[j] = toPublish[j]
                         /\ lookups'[j] = lookups[j]]_vars
    /\ [][(allToPublish' # allToPublish \/ seen' # seen) =>
             \/ NewRunStep
             \/ /\ pc = "aggregate"
                /\ wg = 0
                /\ \A i \in FeedIdx : tpc[i] = "done"
                /\ UNCHANGED <<results, tpc>>]_vars
    /\ [](pc \in {"aggregate", "send", "mark", "done"} =>
             (wg = 0 /\ \A i \in FeedIdx : tpc[i] = "done"))

\* The barrier has just been passed: the tasks finished in the reverse of
\* their declaration order and both slots hold an article.
C11_Witness ==
    /\ pc = "aggregate"
    /\ finishOrder = <<2, 1>>
    /\ results[1].Articles # <<>>
    /\ results[2].Articles # <<>>

\* ---- C12
\* Every feed failed, or no post of any feed was reported unpublished.
NothingToPublish ==
    \A i \in FeedIdx :
        \/ Failed(i)
        \/ /\ Succeeded(i)
           /\ \A c \in 1..Len(lookups[i]) : lookups[i][c].v # "unpub"

\* C12: a run in which every feed failed, or every parsed article is
\* published or skipped, ends with an empty aggregated list and a nil
\* return, without a send call and without a BatchMarkPublished call.
C12_EmptyOutcome ==
    /\ (Aggregated /\ NothingToPublish) =>
          /\ pc = "done"
          /\ allToPublish = <<>>
          /\ ret = "nil"
          /\ sendLog = <<>>
          /\ markCalls = 0
          /\ published = pubAtStart
    /\ (pc \in {"send", "mark"} \/ sendLog # <<>>) => allToPublish # <<>>

\* A run ended empty: one feed failed and the other returned only articles
\* that are published or whose lookup failed.
C12_Witness ==
    /\ pc = "done"
    /\ ret = "nil"
    /\ Failed(1)
    /\ Succeeded(2)
    /\ Len(lookups[2]) = 2
    /\ lookups[2][1].v = "pub"
    /\ lookups[2][2].v = "err"
    /\ allToPublish = <<>>

\* ---- C18
\* One step of the task of feed i: a request attempt or a dedup lookup.
TaskStep(i) ==
    \/ TransportFail(i)
    \/ \E st \in Statuses, kind \in {"body", "readerr", "malformed"} :
          \E body \in (IF kind = "body" THEN Bodies ELSE {<<>>}) :
             Response(i, st, kind, body)
    \/ \E v \in {"pub", "unpub", "err"} : Check(i, v)

\* One run of runParsers, from the launch loop to its return.
RunNext ==
    \/ Launch
    \/ \E i \in FeedIdx : TaskStep(i)
    \/ Cancel
    \/ Wait
    \/ AggregateResults
    \/ SendOk
    \/ SendFail
    \/ \E out \in {"nil", ErrMark} \X SUBSET GUIDs : Mark(out)

\* Every network and store call returns and every runnable goroutine is
\* scheduled: no enabled step of the main routine or of a task waits forever.
LiveSpec ==
    /\ Init
    /\ [][RunNext]_vars
    /\ WF_vars(Launch)
    /\ \A i \in FeedIdx : WF_vars(TaskStep(i))
    /\ WF_vars(Wait)
    /\ WF_vars(AggregateResults)
    /\ WF_vars(SendOk \/ SendFail)
    /\ WF_vars(\E out \in {"nil", ErrMark} \X SUBSET GUIDs : Mark(out))

\* C18: every task issues at most 3 requests and one lookup per parsed
\* article and then returns, so the run passes the barrier and returns; the
\* main routine is past the barrier only when no task is still running.
C18_RunTerminates ==
    /\ [](\A i \in FeedIdx :
            /\ attempts[i] <= 3
            /\ Len(lookups[i]) <= Len(posts[i])
            /\ \A k \in 1..Len(posts[i]) :
                  Cardinality({c \in 1..Len(lookups[i]) : lookups[i][c].k = k}) <= 1)
    /\ \A i \in FeedIdx : <>(tpc[i] = "done")
    /\ <>(pc \in {"aggregate", "send", "mark", "done"})
    /\ <>(pc = "done" /\ ret # "running")
    /\ [](pc # "launch" => \A i \in FeedIdx : tpc[i] = "done")

\* The run returned after one feed used all three attempts and the other
\* had two articles looked up.
C18_Witness ==
    /\ pc = "done"
    /\ ret = "nil"
    /\ results[1].Err = ErrFetch
    /\ Len(lookups[2]) = 2
    /\ markCalls = 1

\* ---- C19
\* C19: the list given to BatchMarkPublished carries the same GUIDs, in the
\* same order, as the list given to the send call that succeeded, and each
\* of them is the GUID the parser assigned and the dedup gate looked up,
\* in email mode as in telegram mode.
C19_SentEqualsMarked ==
    /\ markCalls = 1 =>
          /\ Sent
          /\ marked = sent
          /\ marked = GuidSeq(allToPublish)
    /\ Aggregated =>
          \A a \in 1..Len(allToPublish) :
             LET e == allToPublish[a]
                 i == e.src[1]
                 k == e.src[2]
             IN  /\ e.GUID = posts[i][k].GUID
                 /\ \E c \in 1..Len(lookups[i]) :
                       lookups[i][c].k = k /\ lookups[i][c].GUID = e.GUID
                 /\ envTarget = "email" => e.Title # posts[i][k].Title

\* An email run marked two articles after sending them.
C19_Witness ==
    /\ envTarget = "email"
    /\ markCalls = 1
    /\ ret = "nil"
    /\ Len(marked) = 2

\* ---- C20
\* Every post the feeds returned in this run was recorded by an earlier run.
AllRecordedBefore ==
    /\ \A i \in FeedIdx : Succeeded(i) \/ Failed(i)
    /\ \A i \in FeedIdx : \A k \in 1..Len(posts[i]) : posts[i][k].GUID \in pubAtStart

\* C20: an item recorded by an earlier run's BatchMarkPublished is never
\* reported unpublished nor sent by a later run, and a later run whose feeds
\* return only such items sends nothing and returns nil.
C20_CrossRunIdempotence ==
    /\ \A i \in FeedIdx : \A c \in 1..Len(lookups[i]) :
          lookups[i][c].GUID \in pubAtStart => lookups[i][c].v \in {"pub", "err"}
    /\ Aggregated => GuidsOf(allToPublish) \cap pubAtStart = {}
    /\ (Aggregated /\ AllRecordedBefore) =>
          /\ allToPublish = <<>>
          /\ sendLog = <<>>
          /\ markCalls = 0
          /\ ret = "nil"

\* The second run got back the two items the first run delivered and
\* recorded, found both published and returned without sending.
C20_Witness ==
    /\ run = 2
    /\ pubAtStart = {1, 2}
    /\ pc = "done"
    /\ \E i \in FeedIdx :
          /\ Len(lookups[i]) = 2
          /\ lookups[i][1].v = "pub" /\ lookups[i][2].v = "pub"
          /\ lookups[i][1].GUID # lookups[i][2].GUID
    /\ AllRecordedBefore
    /\ sendLog = <<>>

\* ================================================ claims about the parser
Returned == ppc = "returned"

\* The item a parsed post came from.
ItemOf(k) == xmlBody.items[origin[k]]

\* ---- C13
\* The link an item resolves to, before any check.
ResolvedLink(header, item) ==
    IF Slashdot(header) THEN item.Link
    ELSE IF Atom(header) THEN AtomLinkOf(item)
    ELSE RSSLinkOf(item)

EmptyTitleOrLink(header, item) ==
    \/ TrimSpace(item.Title) = <<>>
    \/ TrimSpace(ResolvedLink(header, item)) = <<>>

\* C13: whatever the variant, a decoded feed in which every item has an empty
\* title or an empty link after trimming makes ParseRSSFeed return an error.
C13_EmptyFeedError ==
    (/\ Returned
     /\ xmlBody.kind = "xml"
     /\ \A j \in 1..Len(xmlBody.items) :
           EmptyTitleOrLink(feedCfg.Header, xmlBody.items[j]))
    => parseRet.err # "nil"

\* ---- C14
\* C14: every article ParseRSSFeed returns has a non-empty GUID, and a Title
\* and a Link that are non-empty after trimming whitespace.
C14_CanonicalArticle ==
    Returned =>
       \A k \in 1..Len(parseRet.posts) :
          /\ parseRet.posts[k].GUID # <<>>
          /\ TrimSpace(parseRet.posts[k].Title) # <<>>
          /\ TrimSpace(parseRet.posts[k].Link) # <<>>

\* ---- C15
\* The RSS loop has taken item j and appended a post for it.
EmittedRSS(j) == RSS(feedCfg.Header) /\ \E k \in 1..Len(origin) : origin[k] = j

\* C15 as stated: an RSS item with a non-empty guid gets the header without
\* spaces, ":" and the trimmed guid when the header is non-empty, and the
\* bare trimmed guid when the header is empty.
C15_GuidSynthesis ==
    \A k \in 1..Len(parsed) :
       (RSS(feedCfg.Header) /\ ItemOf(k).GUID # <<>>) =>
          parsed[k].GUID =
             IF feedCfg.Header # <<>>
             THEN ReplaceAll(feedCfg.Header, " ") \o <<":">>
                     \o TrimSpace(ItemOf(k).GUID)
             ELSE TrimSpace(ItemOf(k).GUID)

\* C15 amended: an RSS item whose title and guid are non-empty after trimming
\* yields an article, and the article of an RSS item whose guid is non-empty
\* after trimming has the header without spaces, ":" and the trimmed guid
\* when the header without its spaces is non-empty, and the bare trimmed
\* guid otherwise.
C15_GuidSynthesisTrimmed ==
    /\ \A k \in 1..Len(parsed) :
          (RSS(feedCfg.Header) /\ TrimSpace(ItemOf(k).GUID) # <<>>) =>
             parsed[k].GUID =
                IF ReplaceAll(feedCfg.Header, " ") # <<>>
                THEN ReplaceAll(feedCfg.Header, " ") \o <<":">>
                        \o TrimSpace(ItemOf(k).GUID)
                ELSE TrimSpace(ItemOf(k).GUID)
    /\ \A j \in 1..Len(xmlBody.items) :
          (/\ RSS(feedCfg.Header)
           /\ ppc \in {"items", "returned"} /\ j < itemIdx
           /\ TrimSpace(xmlBody.items[j].Title) # <<>>
           /\ TrimSpace(xmlBody.items[j].GUID) # <<>>) => EmittedRSS(j)

\* An RSS feed headed "Ex News" returned an article for an item whose guid
\* is " g " and whose link is empty.
C15_Witness ==
    /\ Returned
    /\ feedCfg.Header = <<"Ex", " ", "News">>
    /\ Len(parseRet.posts) = 2
    /\ ItemOf(2).GUID = <<" ", "g", " ">>
    /\ ItemOf(2).Link = <<>>
    /\ parseRet.posts[2].GUID = <<"Ex", "News", ":", "g">>
    /\ parseRet.posts[2].Link = <<"g">>

\* ---- C16
NoIdentifier(header, item) ==
    IF Slashdot(header) THEN TRUE
    ELSE IF Atom(header) THEN TrimSpace(item.ID) = <<>>
    ELSE TrimSpace(item.GUID) = <<>> /\ TrimSpace(item.ItemID) = <<>>

\* C16: the article of an item without a stable identifier has its Link as
\* GUID, without header prefix; the Link is the item's resolved link, which
\* for Atom is the outbound content link when the resolver found one.
C16_GuidFallback ==
    \A k \in 1..Len(parsed) :
       NoIdentifier(feedCfg.Header, ItemOf(k)) =>
          /\ parsed[k].GUID = parsed[k].Link
          /\ parsed[k].Link # <<>>
          /\ Slashdot(feedCfg.Header) => parsed[k].Link = ItemOf(k).Link
          /\ Atom(feedCfg.Header) =>
                parsed[k].Link =
                   IF externalFromContent(ItemOf(k).Content).ok
                   THEN externalFromContent(ItemOf(k).Content).h
                   ELSE TrimSpace(ItemOf(k).Link.Href)
          /\ RSS(feedCfg.Header) =>
                parsed[k].Link =
                   IF TrimSpace(ItemOf(k).Link) # <<>>
                   THEN TrimSpace(ItemOf(k).Link)
                   ELSE TrimSpace(ItemOf(k).AtomLink.Href)

\* An Atom feed headed "r/ask sci" returned, for an entry with a blank id
\* whose content links to reddit.com and then to news.test, an article whose
\* GUID and Link are the news.test link; its other entry had no link at all
\* and was dropped.
C16_Witness ==
    /\ Returned
    /\ feedCfg.Header = <<"r/", "ask", " ", "sci">>
    /\ Len(xmlBody.items) = 2
    /\ origin = <<2>>
    /\ ItemOf(1).ID = <<" ">>
    /\ ItemOf(1).Link.Href = <<" ", "L">>
    /\ ItemOf(1).Content = Anchor(SelfHref) \o Anchor(ExtHref)
    /\ parseRet.posts[1].GUID = ExtHref
    /\ parseRet.posts[1].Link = ExtHref

\* ---- C17
\* The host of "host" or "host:port".
Hostname(host) == SelectSeq(host, LAMBDA t : t \notin PortTokens)

SelfDomain(name) ==
    \/ name = <<"reddit", ".", "com">>
    \/ HasSuffix(name, <<".", "reddit", ".", "com">>)
    \/ name = <<"redditmedia", ".", "com">>
    \/ HasSuffix(name, <<".", "redditmedia", ".", "com">>)
    \/ name = <<"redd", ".", "it">>

\* The href values of the anchors of a token stream, in document order.
RECURSIVE HrefVals(_, _)
HrefVals(attrs, j) ==
    IF j > Len(attrs) THEN <<>>
    ELSE (IF attrs[j].Key = "href" THEN <<attrs[j].Val>> ELSE <<>>)
            \o HrefVals(attrs, j + 1)

RECURSIVE AnchorHrefs(_, _)
AnchorHrefs(toks, k) ==
    IF k > Len(toks) THEN <<>>
    ELSE (IF toks[k].Type \in {"StartTag", "SelfClosingTag"} /\ toks[k].Data = "a"
          THEN HrefVals(toks[k].Attr, 1) ELSE <<>>)
            \o AnchorHrefs(toks, k + 1)

\* An absolute http/https URL whose host is not a self-domain.
Qualifies(href) ==
    LET u == ParseURL(TrimSpace(href))
    IN  /\ TrimSpace(href) # <<>>
        /\ ~u.err
        /\ u.Scheme \in {"http", "https"}
        /\ ~SelfDomain(ToLower(Hostname(u.Host)))

FirstQualifying(hrefs) ==
    IF \E k \in 1..Len(hrefs) : Qualifies(hrefs[k])
    THEN LET k == CHOOSE m \in 1..Len(hrefs) :
                     /\ Qualifies(hrefs[m])
                     /\ \A n \in 1..(m - 1) : ~Qualifies(hrefs[n])
         IN  [h |-> TrimSpace(hrefs[k]), ok |-> TRUE]
    ELSE NotFound

\* C17: externalFromContent returns the first anchor href, in document
\* order, that is an absolute http/https URL whose host is not a self-domain,
\* and not-found when the content is blank or has no such href.
C17_FirstExternalHref ==
    ppc = "resolved" =>
       extLink =
          IF TrimSpace(escaped) = <<>> THEN NotFound
          ELSE FirstQualifying(
                  AnchorHrefs(Tokenize(UnescapeString(escaped), 1, <<>>), 1))

====
